---- MODULE Spec2Model ----
(***************************************************************************)
(* The async listings of chapter 17: the channel listings 17-10 and 17-49  *)
(* (specification Spec, with fair scheduling SpecFair), get_messages of    *)
(* listing 17-49 pulled to its end (SpecMessages), the filtered stream of  *)
(* listing 17-40 (Spec1740) and the page-title scraper (SpecScraper).      *)
(*                                                                         *)
(* The listings are `main` programs over the trpl runtime facade.  The     *)
(* facade (block_on/run, spawn_task, channel, sleep, race, and the stream  *)
(* adapters map/filter/throttle/timeout/merge/take) is not in the listings;*)
(* it is modelled from its contract: one executor thread, tasks interleave *)
(* only at suspension points, a timer wakes its task in the instant of its *)
(* deadline.  Time is counted in milliseconds.                             *)
(***************************************************************************)
EXTENDS Integers, Sequences, FiniteSets, TLC

\* ------------------------------------------------------------------ bounds

\* Time (ms) after which the clock no longer advances.
MaxTime == 4500

\* ------------------------------------------------- constants of the listings

\* listing-17-10: the values sent, and the sleep after each send (1 s).
vals == <<"hi", "from", "the", "future">>
SendPause == 1000

\* listing-17-49, get_messages: the messages and the two sleep lengths.
messages == <<"a", "b", "c", "d", "e", "f", "g", "h", "i", "j">>
SleepEven == 100
SleepOdd == 300
\* listing-17-49, get_intervals: the sleep of each round.
IntervalSleep == 1
\* listing-17-49, main: the adapters' durations and the take budget.
MessagesTimeout == 200
ThrottleDuration == 100
IntervalsTimeout == 10000
TakeCount == 20

Chans == {"vals", "messages", "intervals"}

Min(S) == CHOOSE x \in S : \A y \in S : x <= y

VARIABLES
    listing,    \* which program runs: "l1710" | "l1749" | "scraper" |
                \* "l1740" | "messages" (get_messages with a plain consumer)
    now,        \* the clock, ms since block_on started
    driver,     \* block_on: "running" | "returned"
    main,       \* the driven future: "woken" | "running" | "parked" | "done"
                \* | "polling" (17-49: inside merged.next()) | "busy" (the
                \* plain consumer: suspended in its loop body)
    mainWake,   \* 17-10: deadline of main's pending sleep
    sentCount,  \* 17-10: iterations of the for loop entered
    queue,      \* per channel: the values sent and not yet received
    rxAlive,    \* per channel: the receiver has not been dropped
    txAlive,    \* per channel: a sender has not been dropped
    regRx,      \* per channel: the receiver's task waits for a value
    sentLog,    \* per channel: every value sent, in send order (history)
    recvLog,    \* per channel: every value received, in order (history)
    msgTask,    \* 17-49: the task spawned by get_messages
    intTask,    \* 17-49: the task spawned by get_intervals
    merged,     \* 17-49: the pinned stream messages.merge(intervals).take(20)
    printed,    \* 17-49: what the loop printed, with the time of each line
    ended,      \* 17-49: merged.next() has returned None
    panicked,   \* the tasks that ended in a panic
    args,       \* scraper: std::env::args(), the program name first
    web,        \* scraper: what the HTTP collaborator serves for each URL
    first,      \* scraper: the future page_title_for(&args[1])
    second,     \* scraper: the future page_title_for(&args[2])
    winner,     \* scraper: what race returned: "none" | "Left" | "Right"
    exitStatus, \* scraper: how the process ended
    values,     \* 17-40: the range 1..101, as the next number it gives
    value       \* 17-40: the item the filter holds: None | Some(v)

vars == <<listing, now, driver, main, mainWake, sentCount, queue, rxAlive,
          txAlive, regRx, sentLog, recvLog, msgTask, intTask, merged,
          printed, ended, panicked, args, web, first, second, winner,
          exitStatus, values, value>>

filterVars == <<values, value>>

scraperVars == <<args, web, first, second, winner, exitStatus>>

chanVars == <<queue, rxAlive, txAlive, regRx, sentLog, recvLog>>

\* ---------------------------------------------------------------- channel

NoChans == [c \in Chans |-> <<>>]

\* tx.send(v) on a live channel: the value goes to the back of the queue.
Enqueue(q, v) == Append(q, v)

\* tx.send(v): Ok while the receiver lives, SendError once it is dropped.
SendOk(c) == rxAlive[c]

\* The effect of a successful tx.send(v) on channel c; the receiving task,
\* if it waits on c, is woken.
tx_send(c, v) ==
    /\ queue' = [queue EXCEPT ![c] = Enqueue(@, v)]
    /\ sentLog' = [sentLog EXCEPT ![c] = Append(@, v)]
    /\ regRx' = [regRx EXCEPT ![c] = FALSE]

\* The receiving task after a send on c: woken if it was parked on c.
WakeOnSend(c) == IF main = "parked" /\ regRx[c] THEN "woken" ELSE main

\* ------------------------------------------------------- stream adapters
\* A poll takes the consumer-side state s = [q, reg, rl, m] (the queues, the
\* receivers' registrations, the receive logs, the adapters' fields m) and
\* gives [r |-> the poll's result, s |-> the state after it].  An adapter is
\* given `in`, the poll of the stream it wraps.

Pending == [k |-> "Pending"]
None == [k |-> "None"]
Some(v) == [k |-> "Some", v |-> v]
Ok(v) == [ok |-> TRUE, v |-> v]
Elapsed == [ok |-> FALSE, v |-> <<"Elapsed">>]

\* ReceiverStream::new(rx): the next value of the queue; end-of-stream when
\* the queue is empty and every sender is gone; else wait for a send.
rx_poll(s, c) ==
    IF s.q[c] # <<>>
    THEN [r |-> Some(Head(s.q[c])),
          s |-> [s EXCEPT !.q[c] = Tail(@), !.rl[c] = Append(@, Head(s.q[c]))]]
    ELSE IF ~txAlive[c]
    THEN [r |-> None, s |-> s]
    ELSE [r |-> Pending, s |-> [s EXCEPT !.reg[c] = TRUE]]

\* timeout(dur): a value re-arms the deadline; with no value and the
\* deadline armed and passed, one Err(Elapsed) and the deadline disarmed.
timeout_poll(in, dl, pf, dur) ==
    IF in.r.k = "Some"
    THEN [r |-> Some(Ok(in.r.v)),
          s |-> [in.s EXCEPT !.m[dl] = now + dur, !.m[pf] = TRUE]]
    ELSE IF in.r.k = "None"
    THEN in
    ELSE IF in.s.m[pf] /\ now >= in.s.m[dl]
    THEN [r |-> Some(Elapsed), s |-> [in.s EXCEPT !.m[pf] = FALSE]]
    ELSE in

\* throttle: the state in which the wrapped stream is polled, the delay
\* having passed.
throttle_open(s) == [s EXCEPT !.m.tHasDelayed = TRUE]

\* throttle(dur): the wrapped stream is not polled before the delay set by
\* the last item has passed (in is its poll from throttle_open(s)); an item
\* sets the delay to dur from now.
throttle_poll(s, in, dur) ==
    IF ~s.m.tHasDelayed /\ now < s.m.tDelay
    THEN [r |-> Pending, s |-> s]
    ELSE IF in.r.k = "Some"
    THEN [r |-> in.r,
          s |-> [in.s EXCEPT !.m.tDelay = now + dur, !.m.tHasDelayed = FALSE]]
    ELSE in

\* One side of merge: after its end-of-stream it is not polled again.
fuse_poll(s, in, done) ==
    IF s.m[done]
    THEN [r |-> None, s |-> s]
    ELSE IF in.r.k = "None"
    THEN [r |-> None, s |-> [in.s EXCEPT !.m[done] = TRUE]]
    ELSE in

\* merge: a is the poll of the side polled first, b the poll of the other
\* side from the state a left; b counts only when a gave no item; the merge
\* ends when both have ended.
merge_two(a, b) ==
    IF a.r.k = "Some"
    THEN a
    ELSE IF b.r.k = "Some"
    THEN b
    ELSE [r |-> IF a.r.k = "None" /\ b.r.k = "None" THEN None ELSE Pending,
          s |-> b.s]

\* take(n): at most n items, then end-of-stream without a poll of the
\* wrapped stream.
take_poll(s, in) ==
    IF s.m.remaining > 0
    THEN IF in.r.k = "Some"
         THEN [r |-> in.r, s |-> [in.s EXCEPT !.m.remaining = @ - 1]]
         ELSE IF in.r.k = "None"
         THEN [r |-> None, s |-> [in.s EXCEPT !.m.remaining = 0]]
         ELSE in
    ELSE [r |-> None, s |-> s]

\* ---------------------------------------------- listing-17-49: the streams

\* format!("Message: '{message}'")
MessageText(message) == <<"Message: '", message, "'">>
\* format!("Interval #{count}")
IntervalText(count) == <<"Interval #", count>>

\* A faulty get_messages (C11): the stream is built from try_recv, so it ends
\* as soon as the queue is found empty.
get_messages_stream_try_recv(s) ==
    IF s.q["messages"] # <<>> THEN rx_poll(s, "messages")
    ELSE [r |-> None, s |-> s]

\* ReceiverStream::new(rx) of get_messages
get_messages_stream(s) == rx_poll(s, "messages")
get_intervals_stream(s) == rx_poll(s, "intervals")

\* get_messages().timeout(200ms)
messages_poll(s) ==
    timeout_poll(get_messages_stream(s), "mDeadline", "mPoll", MessagesTimeout)

\* get_intervals().map(|count| format!("Interval #{count}"))
mapped_poll(s) ==
    LET in == get_intervals_stream(s) IN
    IF in.r.k = "Some" THEN [r |-> Some(IntervalText(in.r.v)), s |-> in.s] ELSE in

\* .throttle(100ms)
throttled_poll(s) ==
    throttle_poll(s, mapped_poll(throttle_open(s)), ThrottleDuration)

\* A faulty main (C7): the throttle call is left out.
intervals_poll_unthrottled(s) ==
    timeout_poll(mapped_poll(s), "iDeadline", "iPoll", IntervalsTimeout)

\* .timeout(10s)
intervals_poll(s) ==
    timeout_poll(throttled_poll(s), "iDeadline", "iPoll", IntervalsTimeout)

merge_a(s) == fuse_poll(s, messages_poll(s), "aDone")
merge_b(s) == fuse_poll(s, intervals_poll(s), "bDone")

\* messages.merge(intervals): the side polled first alternates.
merge_poll(s) ==
    LET t == [s EXCEPT !.m.aFirst = ~@] IN
    IF s.m.aFirst THEN merge_two(merge_a(t), merge_b(merge_a(t).s))
    ELSE merge_two(merge_b(t), merge_a(merge_b(t).s))

\* A faulty main (C5): the take call is left out.
merged_next_untaken(s) == merge_poll(s)

\* merged.next(): one poll of messages.merge(intervals).take(20)
merged_next(s) == take_poll(s, merge_poll(s))

\* The stream as main builds it at time 0.
NewMerged ==
    [mDeadline |-> MessagesTimeout, mPoll |-> TRUE,
     tDelay |-> 0, tHasDelayed |-> TRUE,
     iDeadline |-> IntervalsTimeout, iPoll |-> TRUE,
     aFirst |-> TRUE, aDone |-> FALSE, bDone |-> FALSE,
     remaining |-> TakeCount]

\* The timers main waits on while merged.next() is pending.
MergedTimers ==
    {merged.mDeadline : x \in IF merged.mPoll /\ ~merged.aDone THEN {1} ELSE {}}
    \cup {merged.tDelay : x \in IF ~merged.tHasDelayed /\ ~merged.bDone THEN {1} ELSE {}}
    \cup {merged.iDeadline : x \in IF merged.iPoll /\ ~merged.bDone THEN {1} ELSE {}}

\* ------------------------------------------------------- initial states

NoFuture == [url |-> "", pc |-> "none", due |-> 0, out |-> [k |-> "Unset"]]
NoExit == [code |-> -1, stderr |-> ""]

IdleTask == [pc |-> "none", n |-> 0, wake |-> 0]
SpawnedTask == [pc |-> "spawned", n |-> 0, wake |-> 0]

\* A faulty main (C10): the receiver is not kept
\* (let (tx, _) = trpl::channel()).
Init1710_rx_dropped ==
    /\ listing = "l1710"
    /\ msgTask = IdleTask
    /\ intTask = IdleTask
    /\ rxAlive = [c \in Chans |-> FALSE]
    /\ txAlive = [c \in Chans |-> c = "vals"]

\* listing-17-10 as block_on first polls the async block: the channel made,
\* nothing sent yet.
Init1710 ==
    /\ listing = "l1710"
    /\ msgTask = IdleTask
    /\ intTask = IdleTask
    /\ rxAlive = [c \in Chans |-> c = "vals"]
    /\ txAlive = [c \in Chans |-> c = "vals"]

\* listing-17-49 as main reaches its while loop: both channels made, both
\* producer tasks spawned and not yet polled, the merged stream built.
Init1749 ==
    /\ listing = "l1749"
    /\ msgTask = SpawnedTask
    /\ intTask = SpawnedTask
    /\ rxAlive = [c \in Chans |-> c # "vals"]
    /\ txAlive = [c \in Chans |-> c # "vals"]

Init ==
    /\ Init1710 \/ Init1749
    /\ now = 0
    /\ driver = "running"
    /\ main = "running"
    /\ mainWake = 0
    /\ sentCount = 0
    /\ queue = NoChans
    /\ regRx = [c \in Chans |-> FALSE]
    /\ sentLog = NoChans
    /\ recvLog = NoChans
    /\ merged = NewMerged
    /\ printed = <<>>
    /\ ended = FALSE
    /\ panicked = {}
    /\ args = <<>>
    /\ web = <<>>
    /\ first = NoFuture
    /\ second = NoFuture
    /\ winner = "none"
    /\ exitStatus = NoExit
    /\ values = 0
    /\ value = None

\* ------------------------------------------------------------ block_on

\* A faulty main (C9): the receivers are dropped but the block goes on
\* waiting, so block_on keeps polling the spawned tasks.
block_lingers(dropped) ==
    /\ rxAlive' = [c \in Chans |-> rxAlive[c] /\ c \notin dropped]
    /\ queue' = [c \in Chans |-> IF c \in dropped THEN <<>> ELSE queue[c]]
    /\ regRx' = [c \in Chans |-> regRx[c] /\ c \notin dropped]
    /\ main' = "parked"
    /\ driver' = "running"

\* A faulty main (C15): the stream outlives the loop and the block goes on
\* waiting, so nothing is dropped when the loop ends.
block_keeps_stream(dropped) ==
    /\ UNCHANGED <<rxAlive, queue, regRx>>
    /\ main' = "parked"
    /\ driver' = "running"

\* The async block ends: its channel ends are dropped (what a dropped
\* receiver had queued goes with it) and block_on returns.  Tasks that are
\* still pending are left as they are and never polled again.
block_returns(dropped) ==
    /\ rxAlive' = [c \in Chans |-> rxAlive[c] /\ c \notin dropped]
    /\ queue' = [c \in Chans |-> IF c \in dropped THEN <<>> ELSE queue[c]]
    /\ regRx' = [c \in Chans |-> regRx[c] /\ c \notin dropped]
    /\ main' = "done"
    /\ driver' = "returned"

\* A task can be polled: block_on still runs and main is not mid-poll.
CanPoll == driver = "running" /\ main \notin {"running", "polling"}

\* ------------------------------------------------------- listing-17-10

\* for val in vals { tx.send(val).unwrap(); sleep(1 s).await }: one round.
main_1710_send ==
    /\ listing = "l1710"
    /\ driver = "running"
    /\ main \in {"running", "woken"}
    /\ sentCount < Len(vals)
    /\ sentCount' = sentCount + 1
    /\ IF SendOk("vals")
       THEN /\ tx_send("vals", vals[sentCount + 1])
            /\ mainWake' = now + SendPause
            /\ main' = "parked"
            /\ UNCHANGED <<driver, panicked, rxAlive, txAlive>>
       ELSE /\ panicked' = panicked \cup {"main"}
            /\ main' = "done"
            /\ driver' = "returned"
            /\ rxAlive' = [rxAlive EXCEPT !["vals"] = FALSE]
            /\ txAlive' = [txAlive EXCEPT !["vals"] = FALSE]
            /\ UNCHANGED <<queue, sentLog, regRx, mainWake>>
    /\ UNCHANGED <<listing, now, recvLog, msgTask, intTask, merged, printed,
                   ended>>
    /\ UNCHANGED <<scraperVars, filterVars>>

\* The loop is over after the last sleep: tx and rx go out of scope.
main_1710_return ==
    /\ listing = "l1710"
    /\ driver = "running"
    /\ main = "woken"
    /\ sentCount = Len(vals)
    /\ block_returns({"vals"})
    /\ txAlive' = [txAlive EXCEPT !["vals"] = FALSE]
    /\ UNCHANGED <<listing, now, mainWake, sentCount, sentLog, recvLog,
                   msgTask, intTask, merged, printed, ended, panicked>>
    /\ UNCHANGED <<scraperVars, filterVars>>

\* ------------------------------------------------------- listing-17-49

\* A faulty get_messages (C6): the two sleep lengths are exchanged.
time_to_sleep_swapped(index) == IF index % 2 = 0 THEN SleepOdd ELSE SleepEven

\* A faulty get_messages (C14): the sleep is built and never awaited, so the
\* task does not wait at all.
time_to_sleep_not_awaited(index) == 0

\* let time_to_sleep = if index % 2 == 0 { 100 } else { 300 };
time_to_sleep(index) == IF index % 2 = 0 THEN SleepEven ELSE SleepOdd

\* A faulty get_messages (C1): the messages are taken from the back of the
\* array.
message_at_reversed(index) == messages[Len(messages) - index]

\* for (index, message) in messages.into_iter().enumerate()
message_at(index) == messages[index + 1]

\* get_messages' task, first poll: round 0 starts its sleep.
get_messages_start ==
    /\ listing \in {"l1749", "messages"}
    /\ CanPoll
    /\ msgTask.pc = "spawned"
    /\ msgTask' = [pc |-> "sleeping", n |-> 0, wake |-> now + time_to_sleep(0)]
    /\ UNCHANGED <<listing, now, driver, main, mainWake, sentCount, chanVars,
                   intTask, merged, printed, ended, panicked>>
    /\ UNCHANGED <<scraperVars, filterVars>>

\* get_messages' task woken from its sleep: it sends the message of round
\* n, then sleeps for round n + 1 or, after the last message, ends and
\* drops tx.
get_messages_send ==
    /\ listing \in {"l1749", "messages"}
    /\ CanPoll
    /\ msgTask.pc = "sleeping"
    /\ msgTask.wake <= now
    /\ IF SendOk("messages")
       THEN /\ tx_send("messages", MessageText(message_at(msgTask.n)))
            /\ main' = WakeOnSend("messages")
            /\ IF msgTask.n + 1 < Len(messages)
               THEN /\ msgTask' = [pc |-> "sleeping", n |-> msgTask.n + 1,
                                   wake |-> now + time_to_sleep(msgTask.n + 1)]
                    /\ UNCHANGED txAlive
               ELSE /\ msgTask' = [msgTask EXCEPT !.pc = "done", !.n = @ + 1]
                    /\ txAlive' = [txAlive EXCEPT !["messages"] = FALSE]
            /\ UNCHANGED panicked
       ELSE /\ panicked' = panicked \cup {"get_messages"}
            /\ msgTask' = [msgTask EXCEPT !.pc = "panicked"]
            /\ txAlive' = [txAlive EXCEPT !["messages"] = FALSE]
            /\ UNCHANGED <<queue, sentLog, regRx, main>>
    /\ UNCHANGED <<listing, now, driver, mainWake, sentCount, rxAlive,
                   recvLog, intTask, merged, printed, ended>>
    /\ UNCHANGED <<scraperVars, filterVars>>

\* A faulty get_intervals (C17): before its loop the task awaits a future
\* that is never ready, so it never sends.
get_intervals_start_never_ready ==
    /\ listing = "l1749"
    /\ CanPoll
    /\ intTask.pc = "spawned"
    /\ intTask' = [pc |-> "stalled", n |-> 0, wake |-> 0]
    /\ UNCHANGED <<listing, now, driver, main, mainWake, sentCount, chanVars,
                   msgTask, merged, printed, ended, panicked>>
    /\ UNCHANGED <<scraperVars, filterVars>>

\* get_intervals' task, first poll: count = 0 and the first sleep starts.
get_intervals_start ==
    /\ listing = "l1749"
    /\ CanPoll
    /\ intTask.pc = "spawned"
    /\ intTask' = [pc |-> "sleeping", n |-> 0, wake |-> now + IntervalSleep]
    /\ UNCHANGED <<listing, now, driver, main, mainWake, sentCount, chanVars,
                   msgTask, merged, printed, ended, panicked>>
    /\ UNCHANGED <<scraperVars, filterVars>>

\* A faulty get_intervals (C18): the channel is bounded and the send is
\* awaited, so the task waits while the queue is full.
send_ready_bounded(c) == Len(queue[c]) < 32

\* tx.send(count).unwrap(): the send is not awaited; it never waits for the
\* receiver or for room in the queue.
send_ready(c) == TRUE

\* get_intervals' task woken from its sleep: count += 1, send, sleep again.
get_intervals_send ==
    /\ listing = "l1749"
    /\ CanPoll
    /\ intTask.pc = "sleeping"
    /\ intTask.wake <= now
    /\ send_ready("intervals")
    /\ IF SendOk("intervals")
       THEN /\ tx_send("intervals", intTask.n + 1)
            /\ main' = WakeOnSend("intervals")
            /\ intTask' = [pc |-> "sleeping", n |-> intTask.n + 1,
                           wake |-> now + IntervalSleep]
            /\ UNCHANGED <<panicked, txAlive>>
       ELSE /\ panicked' = panicked \cup {"get_intervals"}
            /\ intTask' = [intTask EXCEPT !.pc = "panicked", !.n = @ + 1]
            /\ txAlive' = [txAlive EXCEPT !["intervals"] = FALSE]
            /\ UNCHANGED <<queue, sentLog, regRx, main>>
    /\ UNCHANGED <<listing, now, driver, mainWake, sentCount, rxAlive,
                   recvLog, msgTask, merged, printed, ended>>
    /\ UNCHANGED <<scraperVars, filterVars>>

\* The body of the while loop: Ok goes to stdout, Err to stderr.
PrintLine(result) ==
    [out |-> IF result.ok THEN "stdout" ELSE "stderr", item |-> result,
     at |-> now]

\* A faulty main (C13): the loop takes only Ok items
\* (while let Some(Ok(message)) = ...), so a timeout ends it.
while_let_some_ok(r) == r.k = "Some" /\ r.v.ok

\* while let Some(result) = ...: the pattern that keeps the loop going.
while_let_some(r) == r.k = "Some"

\* The head of the while loop: the loop asks merged for its next item.
main_1749_pull ==
    /\ listing = "l1749"
    /\ driver = "running"
    /\ main = "running"
    /\ main' = "polling"
    /\ UNCHANGED <<listing, now, driver, mainWake, sentCount, chanVars,
                   msgTask, intTask, merged, printed, ended, panicked>>
    /\ UNCHANGED <<scraperVars, filterVars>>

\* while let Some(result) = merged.next().await { ... }: one poll of next().
\* An item is printed and control is back at the head of the loop; Pending
\* parks main; None ends the loop and with it the async block.
main_1749_next ==
    /\ listing = "l1749"
    /\ driver = "running"
    /\ main \in {"polling", "woken"}
    /\ LET res == merged_next([q |-> queue, reg |-> regRx, rl |-> recvLog,
                               m |-> merged])
       IN /\ merged' = res.s.m
          /\ recvLog' = res.s.rl
          /\ IF while_let_some(res.r)
             THEN /\ printed' = Append(printed, PrintLine(res.r.v))
                  /\ main' = "running"
                  /\ queue' = res.s.q
                  /\ regRx' = res.s.reg
                  /\ UNCHANGED <<driver, rxAlive, ended>>
             ELSE IF res.r.k = "Pending"
             THEN /\ main' = "parked"
                  /\ queue' = res.s.q
                  /\ regRx' = res.s.reg
                  /\ UNCHANGED <<driver, rxAlive, ended, printed>>
             ELSE /\ ended' = TRUE
                  /\ block_returns({"messages", "intervals"})
                  /\ UNCHANGED printed
    /\ UNCHANGED <<listing, now, mainWake, sentCount, txAlive, sentLog,
                   msgTask, intTask, panicked>>
    /\ UNCHANGED <<scraperVars, filterVars>>

\* ------------------------------------------------------------------ time

\* The timers main is parked on.
MainTimers == IF listing = "l1710" THEN {mainWake} ELSE MergedTimers

TaskTimers ==
    {t.wake : t \in {x \in {msgTask, intTask} : x.pc = "sleeping"}}

\* A spawned task is due for a poll.
TaskDue ==
    \E t \in {msgTask, intTask} :
        t.pc = "spawned" \/ (t.pc = "sleeping" /\ t.wake <= now)

\* Nothing can run: the clock moves to the next deadline and the timers
\* that are due wake their tasks.
Tick ==
    /\ driver = "running"
    /\ main = "parked"
    /\ ~TaskDue
    /\ LET next == Min(MainTimers \cup TaskTimers)
       IN /\ next <= MaxTime
          /\ now' = next
          /\ main' = IF \E d \in MainTimers : d <= next THEN "woken" ELSE main
    /\ UNCHANGED <<listing, driver, mainWake, sentCount, chanVars, msgTask,
                   intTask, merged, printed, ended, panicked>>
    /\ UNCHANGED <<scraperVars, filterVars>>

Next ==
    \/ main_1710_send
    \/ main_1710_return
    \/ get_messages_start
    \/ get_messages_send
    \/ get_intervals_start
    \/ get_intervals_send
    \/ main_1749_pull
    \/ main_1749_next
    \/ Tick

Spec == Init /\ [][Next]_vars

\* The executor polls what is ready and the clock advances: as long as a
\* step can be taken, one is.
SpecFair == Spec /\ WF_vars(Next)

\* ======================================== get_messages, pulled to its end

\* get_messages() of listing-17-49 alone, in a block that pulls the stream
\* until it ends: the channel made, the task spawned and not yet polled.
InitMessages ==
    /\ listing = "messages"
    /\ msgTask = SpawnedTask
    /\ intTask = IdleTask
    /\ rxAlive = [c \in Chans |-> c = "messages"]
    /\ txAlive = [c \in Chans |-> c = "messages"]
    /\ now = 0
    /\ driver = "running"
    /\ main = "running"
    /\ mainWake = 0
    /\ sentCount = 0
    /\ queue = NoChans
    /\ regRx = [c \in Chans |-> FALSE]
    /\ sentLog = NoChans
    /\ recvLog = NoChans
    /\ merged = NewMerged
    /\ printed = <<>>
    /\ ended = FALSE
    /\ panicked = {}
    /\ args = <<>>
    /\ web = <<>>
    /\ first = NoFuture
    /\ second = NoFuture
    /\ winner = "none"
    /\ exitStatus = NoExit
    /\ values = 0
    /\ value = None

\* while let Some(message) = messages.next().await { ... }: one poll of
\* next().  After an item the loop body either pulls again at once or first
\* awaits something else; Pending parks the consumer; None ends the loop and
\* with it the block, which drops the receiver.
consumer_next ==
    /\ listing = "messages"
    /\ driver = "running"
    /\ main \in {"running", "woken"}
    /\ LET res == get_messages_stream([q |-> queue, reg |-> regRx,
                                        rl |-> recvLog, m |-> merged])
       IN /\ recvLog' = res.s.rl
          /\ IF res.r.k = "Some"
             THEN /\ main' \in {"running", "busy"}
                  /\ queue' = res.s.q
                  /\ regRx' = res.s.reg
                  /\ UNCHANGED <<driver, rxAlive, ended>>
             ELSE IF res.r.k = "Pending"
             THEN /\ main' = "parked"
                  /\ queue' = res.s.q
                  /\ regRx' = res.s.reg
                  /\ UNCHANGED <<driver, rxAlive, ended>>
             ELSE /\ ended' = TRUE
                  /\ block_returns({"messages"})
    /\ UNCHANGED <<listing, now, mainWake, sentCount, txAlive, sentLog,
                   msgTask, intTask, merged, printed, panicked>>
    /\ UNCHANGED <<scraperVars, filterVars>>

\* The loop body's own await is over: the consumer pulls again.
consumer_resume ==
    /\ listing = "messages"
    /\ driver = "running"
    /\ main = "busy"
    /\ main' = "running"
    /\ UNCHANGED <<listing, now, driver, mainWake, sentCount, chanVars,
                   msgTask, intTask, merged, printed, ended, panicked>>
    /\ UNCHANGED <<scraperVars, filterVars>>

\* Nothing is mid-poll and no task is due: the clock moves to the sleeping
\* producer's deadline.
consumer_tick ==
    /\ listing = "messages"
    /\ driver = "running"
    /\ main \in {"parked", "busy"}
    /\ ~TaskDue
    /\ TaskTimers # {}
    /\ Min(TaskTimers) <= MaxTime
    /\ now' = Min(TaskTimers)
    /\ UNCHANGED <<listing, driver, main, mainWake, sentCount, chanVars,
                   msgTask, intTask, merged, printed, ended, panicked>>
    /\ UNCHANGED <<scraperVars, filterVars>>

NextMessages ==
    \/ get_messages_start
    \/ get_messages_send
    \/ consumer_next
    \/ consumer_resume
    \/ consumer_tick

SpecMessages == InitMessages /\ [][NextMessages]_vars

\* =========================================================== listing-17-40

\* let values = 1..101: the first number and the end, which is excluded.
ValuesStart == 1
ValuesEnd == 101

\* let iter = values.map(|n| n * 2)
double(n) == n * 2

\* A faulty main (C12): the filter asks for both divisors.
keep_both(v) == v % 3 = 0 /\ v % 5 = 0

\* stream.filter(|value| value % 3 == 0 || value % 5 == 0): the predicate
keep(v) == v % 3 = 0 \/ v % 5 = 0

\* println!("The value was: {value}")
ValueLine(v) ==
    [out |-> "stdout", item |-> <<"The value was: ", v>>, at |-> now]

\* listing-17-40 as main reaches its while loop: the range untouched, the
\* filter holding no item.
Init1740 ==
    /\ listing = "l1740"
    /\ values = ValuesStart
    /\ value = None
    /\ now = 0
    /\ driver = "running"
    /\ main = "running"
    /\ mainWake = 0
    /\ sentCount = 0
    /\ queue = NoChans
    /\ rxAlive = [c \in Chans |-> FALSE]
    /\ txAlive = [c \in Chans |-> FALSE]
    /\ regRx = [c \in Chans |-> FALSE]
    /\ sentLog = NoChans
    /\ recvLog = NoChans
    /\ msgTask = IdleTask
    /\ intTask = IdleTask
    /\ merged = NewMerged
    /\ printed = <<>>
    /\ ended = FALSE
    /\ panicked = {}
    /\ args = <<>>
    /\ web = <<>>
    /\ first = NoFuture
    /\ second = NoFuture
    /\ winner = "none"
    /\ exitStatus = NoExit

\* filtered.next(), the filter asks the stream for an item: the range gives
\* its next number, doubled by the map, or is exhausted, and then
\* filtered.next() is None, the loop ends and block_on returns.
stream_next ==
    /\ listing = "l1740"
    /\ driver = "running"
    /\ value = None
    /\ IF values < ValuesEnd
       THEN /\ values' = values + 1
            /\ value' = Some(double(values))
            /\ UNCHANGED <<driver, main, ended>>
       ELSE /\ ended' = TRUE
            /\ main' = "done"
            /\ driver' = "returned"
            /\ UNCHANGED <<values, value>>
    /\ UNCHANGED <<listing, now, mainWake, sentCount, chanVars, msgTask,
                   intTask, merged, printed, panicked, scraperVars>>

\* filtered.next(), the filter tests the item it holds: an item that passes
\* is the Some(value) of the loop, which prints it; any other is skipped.
filter_test ==
    /\ listing = "l1740"
    /\ driver = "running"
    /\ value # None
    /\ printed' = IF keep(value.v) THEN Append(printed, ValueLine(value.v))
                  ELSE printed
    /\ value' = None
    /\ UNCHANGED <<listing, now, driver, main, mainWake, sentCount, chanVars,
                   msgTask, intTask, merged, ended, panicked, scraperVars,
                   values>>

Next1740 ==
    \/ stream_next
    \/ filter_test

Spec1740 == Init1740 /\ [][Next1740]_vars

\* =================================================== listing-scraper-final

\* The most URL arguments a run is started with, and the longest wait (ms)
\* for a response and for its body.
MaxUrlArgs == 2
MaxDelay == 2

Urls == {"url1", "url2"}

\* The documents a page can have: a sequence of elements.
Element(tag, inner) == [tag |-> tag, inner |-> inner]
Docs ==
    { <<Element("h1", "Slow")>>,
      <<Element("title", "Fast")>>,
      <<Element("title", "Slow")>>,
      <<Element("h1", "Fast"), Element("title", "Slow"),
        Element("title", "Fast")>> }

Pages == [get : 1..MaxDelay, text : 1..MaxDelay, body : Docs]

ArgLists ==
    UNION {[1..n -> Urls] : n \in 0..MaxUrlArgs}

\* Html::parse(&text).select_first("title").map(|title| title.inner_html())
title_of(body) ==
    LET at == {i \in 1..Len(body) : body[i].tag = "title"} IN
    IF at = {} THEN None ELSE Some(body[Min(at)].inner)

\* args[i] of the Rust vector (indices from 0).
InBounds(i) == i < Len(args)
Arg(i) == args[i + 1]

\* page_title_for(url): the future as created, not yet polled.
page_title_for(url) ==
    [url |-> url, pc |-> "init", due |-> 0, out |-> [k |-> "Unset"]]

\* One poll of a page_title_for future: trpl::get(url).await, then
\* .text().await, then the title of the text.
page_title_poll(f) ==
    IF f.pc = "init"
    THEN [f EXCEPT !.pc = "get", !.due = now + web[f.url].get]
    ELSE IF f.pc = "get" /\ now >= f.due
    THEN [f EXCEPT !.pc = "text", !.due = now + web[f.url].text]
    ELSE IF f.pc = "text" /\ now >= f.due
    THEN [f EXCEPT !.pc = "done", !.out = title_of(web[f.url].body)]
    ELSE f

\* A future dropped before it completed.
Dropped(f) == [f EXCEPT !.pc = "dropped"]

\* trpl::race(f1, f2), one poll: f1 is polled first and wins if it is done;
\* else f2 is polled; the future that did not win is dropped.
race(f1, f2) ==
    LET l == page_title_poll(f1) IN
    IF l.pc = "done"
    THEN [k |-> "Left", v |-> l.out, f1 |-> l, f2 |-> Dropped(f2)]
    ELSE LET r == page_title_poll(f2) IN
         IF r.pc = "done"
         THEN [k |-> "Right", v |-> r.out, f1 |-> Dropped(l), f2 |-> r]
         ELSE [k |-> "Pending", f1 |-> l, f2 |-> r]

\* A faulty main (C4): the arguments of race are exchanged.
race_second_first ==
    LET e == race(second, first) IN
    IF e.k = "Pending"
    THEN [k |-> "Pending", f1 |-> e.f2, f2 |-> e.f1]
    ELSE [k |-> e.k, v |-> e.v, f1 |-> e.f2, f2 |-> e.f1]

\* A faulty main (C3): both futures are polled on every poll and neither
\* is dropped.
race_both_polled ==
    LET l == page_title_poll(first)
        r == page_title_poll(second)
    IN IF l.pc = "done" THEN [k |-> "Left", v |-> l.out, f1 |-> l, f2 |-> r]
       ELSE IF r.pc = "done" THEN [k |-> "Right", v |-> r.out, f1 |-> l, f2 |-> r]
       ELSE [k |-> "Pending", f1 |-> l, f2 |-> r]

\* trpl::race(first, second)
race_first_second == race(first, second)

\* A faulty main (C16): a winner without a title is replaced by the title of
\* the other page.
winning_page_or_other(either) ==
    IF either.v.k = "None"
    THEN title_of(web[IF either.k = "Left" THEN Arg(2) ELSE Arg(1)].body)
    ELSE either.v

\* A faulty main (C2): the Right arm of the match loses its value.
winning_page_left_only(either) == IF either.k = "Left" THEN either.v ELSE None

\* match ... { Either::Left(left) => left, Either::Right(right) => right }
winning_page(either) == either.v

\* println!("The winner was {winning_page:?}")
WinnerLine(page) ==
    [out |-> "stdout", item |-> <<"The winner was ", page>>, at |-> now]

IndexOutOfBounds == [code |-> 101, stderr |-> "index out of bounds"]
ExitOk == [code |-> 0, stderr |-> ""]

InitScraper ==
    /\ listing = "scraper"
    /\ args \in {<<"scraper">> \o a : a \in ArgLists}
    /\ web \in [Urls -> Pages]
    /\ first = NoFuture
    /\ second = NoFuture
    /\ winner = "none"
    /\ exitStatus = NoExit
    /\ now = 0
    /\ driver = "running"
    /\ main = "running"
    /\ mainWake = 0
    /\ sentCount = 0
    /\ queue = NoChans
    /\ rxAlive = [c \in Chans |-> FALSE]
    /\ txAlive = [c \in Chans |-> FALSE]
    /\ regRx = [c \in Chans |-> FALSE]
    /\ sentLog = NoChans
    /\ recvLog = NoChans
    /\ msgTask = IdleTask
    /\ intTask = IdleTask
    /\ merged = NewMerged
    /\ printed = <<>>
    /\ ended = FALSE
    /\ panicked = {}
    /\ values = 0
    /\ value = None

listingVars == <<listing, mainWake, sentCount, chanVars, msgTask, intTask,
                 merged, ended, filterVars>>

\* let first = page_title_for(&args[1]); let second = page_title_for(&args[2]);
\* an index past the end of args panics, and the panic ends the process.
scraper_main_args ==
    /\ listing = "scraper"
    /\ driver = "running"
    /\ main = "running"
    /\ first.pc = "none"
    /\ IF InBounds(1) /\ InBounds(2)
       THEN /\ first' = page_title_for(Arg(1))
            /\ second' = page_title_for(Arg(2))
            /\ UNCHANGED <<driver, main, panicked, exitStatus>>
       ELSE /\ first' = IF InBounds(1) THEN Dropped(page_title_for(Arg(1)))
                        ELSE first
            /\ second' = second
            /\ panicked' = panicked \cup {"main"}
            /\ exitStatus' = IndexOutOfBounds
            /\ main' = "done"
            /\ driver' = "returned"
    /\ UNCHANGED <<listingVars, now, printed, args, web, winner>>

\* One poll of trpl::race(first, second).await and, once it has a result,
\* the rest of the block: the match, the println!, the return of trpl::run.
scraper_race_poll ==
    /\ listing = "scraper"
    /\ driver = "running"
    /\ main \in {"running", "woken"}
    /\ first.pc # "none"
    /\ LET either == race_first_second
       IN /\ first' = either.f1
          /\ second' = either.f2
          /\ IF either.k = "Pending"
             THEN /\ main' = "parked"
                  /\ UNCHANGED <<winner, printed, driver, exitStatus>>
             ELSE /\ winner' = either.k
                  /\ printed' = Append(printed, WinnerLine(winning_page(either)))
                  /\ main' = "done"
                  /\ driver' = "returned"
                  /\ exitStatus' = ExitOk
    /\ UNCHANGED <<listingVars, now, panicked, args, web>>

\* The responses main waits for.
ScraperTimers == {f.due : f \in {g \in {first, second} : g.pc \in {"get", "text"}}}

\* Nothing can run: the clock moves to the next response, which wakes main.
scraper_tick ==
    /\ listing = "scraper"
    /\ driver = "running"
    /\ main = "parked"
    /\ now' = Min(ScraperTimers)
    /\ main' = "woken"
    /\ UNCHANGED <<listingVars, driver, printed, panicked, scraperVars>>

NextScraper ==
    \/ scraper_main_args
    \/ scraper_race_poll
    \/ scraper_tick

SpecScraper == InitScraper /\ [][NextScraper]_vars

\* ================================================================ claims

IsPrefix(a, b) == Len(a) <= Len(b) /\ SubSeq(b, 1, Len(a)) = a

IsErrLine(l) == ~l.item.ok
IsMessageLine(l) == l.item.ok /\ l.item.v[1] = "Message: '"
IsIntervalLine(l) == l.item.ok /\ l.item.v[1] = "Interval #"
\* What the messages stream gave the loop: its Ok items and its timeouts
\* (the intervals stream's 10 s timeout is checked apart, in C6).
IsMessagesItem(l) == IsErrLine(l) \/ IsMessageLine(l)

MessageLines == SelectSeq(printed, IsMessageLine)
IntervalLines == SelectSeq(printed, IsIntervalLine)
MessagesItems == SelectSeq(printed, IsMessagesItem)

\* C1: on every channel the receiver gets the values in send order, none
\* lost, doubled or reordered: what was received is a prefix of what was
\* sent and, while the receiver lives, received followed by queued is
\* exactly what was sent; the message lines of listing 17-49 are 'a', 'b',
\* ... in the order of the array; the queue of listing 17-10 holds the
\* first sentCount values of vals in order.
C1_ChannelFifo ==
    /\ \A c \in Chans :
          /\ IsPrefix(recvLog[c], sentLog[c])
          /\ rxAlive[c] => recvLog[c] \o queue[c] = sentLog[c]
    /\ listing = "l1749" =>
          /\ Len(MessageLines) <= Len(messages)
          /\ \A i \in 1..Len(MessageLines) :
                MessageLines[i].item.v = MessageText(messages[i])
    /\ (listing = "l1710" /\ rxAlive["vals"]) =>
          queue["vals"] = SubSeq(vals, 1, sentCount)

C1_Witness ==
    /\ listing = "l1749"
    /\ Len(MessageLines) >= 3
    /\ Len(recvLog["intervals"]) >= 2
    /\ Len(queue["intervals"]) >= 2

\* C5: the loop of listing 17-49 never handles more than 20 results, it
\* never waits once it has handled 20 (the next call of next() gives None),
\* and when next() has given None it has handled exactly 20.
C5_TakeCount ==
    listing = "l1749" =>
        /\ Len(printed) <= 20
        /\ Len(printed) = 20 => (main \in {"running", "polling"} \/ ended)
        /\ ended => Len(printed) = 20

C5_Witness ==
    /\ ended
    /\ Len(printed) = 20
    /\ \E i, j \in 1..Len(printed) : IsErrLine(printed[i]) /\ printed[j].item.ok

\* The item at place p of the messages stream: the messages in order, each
\* message of odd index preceded by one timeout.
ExpectedMessagesItem(p) ==
    LET g == (p - 1) \div 3
        r == (p - 1) % 3
    IN IF r = 0 THEN Ok(MessageText(messages[2 * g + 1]))
       ELSE IF r = 1 THEN Elapsed
       ELSE Ok(MessageText(messages[2 * g + 2]))

\* C6: the messages stream yields one Err(Elapsed) for each message of odd
\* index (sent after 300 ms, past the 200 ms deadline) and then that message
\* as an Ok item; a timeout never ends the stream and never loses the late
\* message: whenever main waits, every message sent has been printed.
C6_TimeoutKeepsStream ==
    listing = "l1749" =>
        /\ \A p \in 1..Len(MessagesItems) :
              /\ MessagesItems[p].item.ok = ExpectedMessagesItem(p).ok
              /\ MessagesItems[p].item.v = ExpectedMessagesItem(p).v
        /\ ~merged.aDone
        /\ merged.iPoll
        /\ main = "parked" => Len(MessageLines) = Len(sentLog["messages"])

C6_Witness ==
    \E i, j \in 1..Len(printed) :
        /\ i < j
        /\ IsErrLine(printed[i])
        /\ IsMessageLine(printed[j])
        /\ printed[j].item.v[2] = "b"
        /\ printed[j].at > printed[i].at

\* C7: no two interval items reach the loop less than 100 ms apart.
C7_ThrottleSpacing ==
    \A i \in 1..Len(IntervalLines) : \A j \in 1..Len(IntervalLines) :
        i < j => IntervalLines[j].at - IntervalLines[i].at >= 100

C7_Witness ==
    /\ Len(IntervalLines) >= 3
    /\ Len(sentLog["intervals"]) >= 200
    /\ IntervalLines[3].at - IntervalLines[2].at = 100

\* C9: no task ever panics on a send; in listing 17-49 a receiver is gone
\* only once block_on has returned, the two producer tasks are then still
\* pending in their sleep, and nothing takes a step any more.
C9_AbandonedTasksNoError ==
    /\ panicked = {}
    /\ listing = "l1749" =>
          /\ \A c \in {"messages", "intervals"} :
                ~rxAlive[c] => driver = "returned"
          /\ driver = "returned" =>
                /\ msgTask.pc = "sleeping"
                /\ intTask.pc = "sleeping"
                /\ ~ENABLED Next

C9_Witness ==
    /\ listing = "l1749"
    /\ driver = "returned"
    /\ ~rxAlive["messages"] /\ ~rxAlive["intervals"]
    /\ msgTask.pc = "sleeping" /\ intTask.pc = "sleeping"
    /\ txAlive["messages"] /\ txAlive["intervals"]

\* C10: in listing 17-10 no send fails or waits for a reader: nothing is
\* ever received, the queue holds every value sent so far, the run stops
\* only by block_on returning, and it returns after four sends and four
\* sleeps of one second.
C10_SendNeverBlocks ==
    listing = "l1710" =>
        /\ panicked = {}
        /\ recvLog["vals"] = <<>>
        /\ driver = "running" =>
              /\ rxAlive["vals"]
              /\ Len(queue["vals"]) = sentCount
              /\ ENABLED Next
        /\ driver = "returned" => (sentLog["vals"] = vals /\ now = 4000)

C10_Witness ==
    /\ listing = "l1710"
    /\ main = "woken"
    /\ queue["vals"] = <<"hi", "from", "the", "future">>
    /\ rxAlive["vals"]

\* The state of the slot the loop of listing 17-49 is at: ended once next()
\* has given None; ready or timed-out while the loop body has the slot's
\* item, an Ok or an Err; waiting from the call of next() to its result.
SlotState ==
    IF ended THEN "ended"
    ELSE IF main = "running" /\ printed # <<>>
    THEN IF printed[Len(printed)].item.ok THEN "ready" ELSE "timed-out"
    ELSE "waiting"

SlotSteps ==
    {<<"waiting", "ready">>, <<"waiting", "timed-out">>,
     <<"ready", "waiting">>, <<"timed-out", "waiting">>}
    \cup {<<a, "ended">> : a \in {"waiting", "ready", "timed-out"}}

\* C13: in listing 17-49 the slot changes state only from waiting to ready
\* or timed-out, from ready or timed-out to waiting, and from any state to
\* ended; an item reaches the loop only from waiting; the slot ends only
\* with the take budget used up or both sources ended; ended is never left
\* and nothing is printed after it.
C13_SlotStateMachine ==
    [][listing = "l1749" =>
        /\ SlotState' # SlotState => <<SlotState, SlotState'>> \in SlotSteps
        /\ printed' # printed =>
              (SlotState = "waiting" /\ SlotState' \in {"ready", "timed-out"})
        /\ (SlotState # "ended" /\ SlotState' = "ended") =>
              \/ merged.remaining = 0 /\ Len(printed) = TakeCount
              \/ merged'.aDone /\ merged'.bDone
        /\ SlotState = "ended" =>
              (SlotState' = "ended" /\ printed' = printed)]_vars

C13_Witness ==
    /\ listing = "l1749"
    /\ SlotState = "timed-out"
    /\ \E i \in 1..Len(printed) : IsMessageLine(printed[i])
    /\ \E i \in 1..Len(printed) : IsIntervalLine(printed[i])

\* The sleeps that precede the k-th message (k from 1): 100 ms before each
\* message of even index, 300 ms before each of odd index.
SleepsBefore(k) == 100 * ((k + 1) \div 2) + 300 * (k \div 2)

\* C14: in listing 17-49 the k-th message is never sent before the sleeps
\* of its producer up to it have passed in full; while that producer sleeps
\* the interval producer goes on sending (by the k-th message it has sent
\* one value per millisecond passed) and the loop goes on printing: between
\* any two message lines there is an interval line.
C14_SleepSuspendsOnlyCaller ==
    listing = "l1749" =>
        /\ \A k \in 1..Len(sentLog["messages"]) :
              /\ now >= SleepsBefore(k)
              /\ Len(sentLog["intervals"]) >= SleepsBefore(k) - 1
        /\ \A i \in 1..Len(printed) : \A j \in 1..Len(printed) :
              (i < j /\ IsMessageLine(printed[i]) /\ IsMessageLine(printed[j]))
              => \E r \in (i + 1)..(j - 1) : IsIntervalLine(printed[r])

C14_Witness ==
    /\ listing = "l1749"
    /\ msgTask.pc = "sleeping"
    /\ msgTask.wake > now
    /\ Len(MessageLines) >= 2
    /\ IsIntervalLine(printed[Len(printed)])
    /\ IsMessageLine(printed[Len(printed) - 1])
    /\ Len(sentLog["intervals"]) > SleepsBefore(Len(sentLog["messages"]))

\* C15: in listing 17-49 every value taken from a channel is handed to the
\* loop, so with 20 items handed over nothing more is taken; in the state
\* in which next() has given None both receivers are dropped, their queues
\* are gone, no receiver waits for a send, block_on has returned, and no
\* timer and no poll of the stream can take a step any more.
C15_TakeCancelsUpstream ==
    listing = "l1749" =>
        /\ Len(recvLog["messages"]) = Len(MessageLines)
        /\ Len(recvLog["intervals"]) = Len(IntervalLines)
        /\ ended =>
              /\ \A c \in {"messages", "intervals"} :
                    ~rxAlive[c] /\ queue[c] = <<>> /\ ~regRx[c]
              /\ driver = "returned"
              /\ ~ENABLED Tick
              /\ ~ENABLED main_1749_next
              /\ ~ENABLED main_1749_pull

C15_Witness ==
    /\ listing = "l1749"
    /\ ended
    /\ Len(printed) = 20
    /\ ~rxAlive["messages"] /\ ~rxAlive["intervals"]
    /\ Len(sentLog["intervals"]) > Len(recvLog["intervals"]) + 100
    /\ ~merged.tHasDelayed /\ merged.tDelay > now
    /\ merged.iPoll /\ merged.iDeadline > now

\* C17: under fair scheduling every run of listing 17-49 reaches the state
\* in which next() has given None and block_on has returned, and it does so
\* with get_messages' task still asleep, fewer than its ten messages sent.
C17_Terminates ==
    (listing = "l1749") ~>
        (/\ ended
         /\ driver = "returned"
         /\ msgTask.pc = "sleeping"
         /\ Len(sentLog["messages"]) < Len(messages))

C17_Witness ==
    /\ listing = "l1749"
    /\ ended
    /\ driver = "returned"
    /\ main = "done"
    /\ Len(sentLog["messages"]) = 5
    /\ msgTask.wake > now

\* C18: in listing 17-49 get_intervals' task sends at every millisecond,
\* whatever the throttle does: its sends are 1, 2, 3, ... with none
\* refused, while block_on runs it is never more than one send behind the
\* clock, and whenever its sleep is over and the executor is free its send
\* can be taken; the counts the loop receives, and those it prints,
\* strictly increase.
C18_NoBackpressure ==
    listing = "l1749" =>
        /\ "get_intervals" \notin panicked
        /\ Len(sentLog["intervals"]) = intTask.n
        /\ \A i \in 1..Len(sentLog["intervals"]) : sentLog["intervals"][i] = i
        /\ driver = "running" => intTask.n >= now - 1
        /\ (CanPoll /\ intTask.pc = "sleeping" /\ intTask.wake <= now)
              => ENABLED get_intervals_send
        /\ \A i \in 1..Len(recvLog["intervals"]) :
              \A j \in 1..Len(recvLog["intervals"]) :
                 i < j => recvLog["intervals"][i] < recvLog["intervals"][j]
        /\ \A i \in 1..Len(IntervalLines) : \A j \in 1..Len(IntervalLines) :
              i < j => IntervalLines[i].item.v[2] < IntervalLines[j].item.v[2]

C18_Witness ==
    /\ listing = "l1749"
    /\ main = "parked"
    /\ ~merged.tHasDelayed /\ now < merged.tDelay
    /\ Len(queue["intervals"]) >= 150
    /\ Len(IntervalLines) >= 3
    /\ intTask.n = now

\* ------------------------------------------------------- scraper claims

\* When the page of a URL is complete if fetched from time 0 on.
Finish(url) == web[url].get + web[url].text

PrintedPage == printed[1].item[2]

\* C2: when the two pages complete at different times, the scraper prints
\* the title of the one that completes first, as Left for the first URL and
\* as Right for the second, and prints nothing else.
C2_RaceWinner ==
    (listing = "scraper" /\ winner # "none") =>
        /\ Len(printed) = 1
        /\ Finish(Arg(1)) < Finish(Arg(2)) =>
              (winner = "Left" /\ PrintedPage = title_of(web[Arg(1)].body))
        /\ Finish(Arg(2)) < Finish(Arg(1)) =>
              (winner = "Right" /\ PrintedPage = title_of(web[Arg(2)].body))

C2_Witness ==
    /\ winner = "Right"
    /\ Finish(Arg(2)) < Finish(Arg(1))
    /\ PrintedPage = Some("Fast")
    /\ title_of(web[Arg(1)].body) = Some("Slow")

\* C3: once race has a winner the other future is dropped before it
\* completed, it has produced no title, nothing but the winner's page is
\* printed, and no step is taken after the decision.
C3_LoserCancelled ==
    (listing = "scraper" /\ winner # "none") =>
        LET won == IF winner = "Left" THEN first ELSE second
            lost == IF winner = "Left" THEN second ELSE first
        IN /\ won.pc = "done"
           /\ lost.pc = "dropped"
           /\ lost.out.k = "Unset"
           /\ Len(printed) = 1
           /\ PrintedPage = won.out
           /\ ~ENABLED NextScraper

C3_Witness ==
    /\ winner = "Right"
    /\ first.pc = "dropped"
    /\ first.due > now
    /\ second.pc = "done"

\* Both futures were in their last wait and both waits ended in the instant
\* of the deciding poll.
ReadyTogether ==
    /\ first.due = Finish(Arg(1))
    /\ second.due = Finish(Arg(2))
    /\ first.due = second.due

\* C4: when both futures are ready at the deciding poll, the first URL
\* wins: the result is Left and the page printed is that of args[1].
C4_RaceTieBreak ==
    (listing = "scraper" /\ winner # "none" /\ ReadyTogether) =>
        /\ winner = "Left"
        /\ PrintedPage = title_of(web[Arg(1)].body)

C4_Witness ==
    /\ winner = "Left"
    /\ ReadyTogether
    /\ Arg(1) # Arg(2)
    /\ web[Arg(1)].get # web[Arg(2)].get
    /\ title_of(web[Arg(1)].body) # title_of(web[Arg(2)].body)

\* C16: when the page that completes first has no <title>, the one line
\* printed is "The winner was None", whatever the title of the other page.
C16_WinnerByCompletion ==
    (listing = "scraper" /\ winner # "none") =>
        \A i \in {1, 2} :
            (/\ Finish(Arg(i)) < Finish(Arg(3 - i))
             /\ title_of(web[Arg(i)].body) = None)
            => /\ printed = <<WinnerLine(None)>>
               /\ winner = IF i = 1 THEN "Left" ELSE "Right"

C16_Witness ==
    /\ listing = "scraper"
    /\ winner = "Left"
    /\ Finish(Arg(1)) < Finish(Arg(2))
    /\ title_of(web[Arg(1)].body) = None
    /\ title_of(web[Arg(2)].body) = Some("Fast")
    /\ printed[1].item = <<"The winner was ", None>>

\* C8: started with fewer than two URL arguments the scraper ends with a
\* non-zero exit code and a "missing argument" message, never with an
\* index-out-of-range fault, and starts no fetch.
C8_MissingArgumentError ==
    (listing = "scraper" /\ Len(args) - 1 < 2 /\ driver = "returned") =>
        /\ exitStatus.code > 0
        /\ exitStatus.stderr = "missing argument"
        /\ exitStatus # IndexOutOfBounds
        /\ first.pc \in {"none", "dropped"} /\ first.due = 0
        /\ second.pc = "none"

\* ------------------------------------------- claims on get_messages alone

\* C11: the stream of get_messages reports its end only in a step taken
\* with the sender dropped and the queue empty; when it has reported its
\* end the producer task is done, the consumer has received every value
\* sent, and these are the ten messages in order; while a value is queued
\* or the sender lives the end has not been reported.
C11_ChannelClose ==
    /\ [](listing = "messages" =>
            /\ ended =>
                  /\ ~txAlive["messages"]
                  /\ msgTask.pc = "done"
                  /\ recvLog["messages"] = sentLog["messages"]
                  /\ Len(recvLog["messages"]) = 10
                  /\ \A i \in 1..Len(recvLog["messages"]) :
                        recvLog["messages"][i] = MessageText(messages[i])
            /\ (txAlive["messages"] \/ queue["messages"] # <<>>) => ~ended)
    /\ [][(listing = "messages" /\ ~ended /\ ended') =>
            (~txAlive["messages"] /\ queue["messages"] = <<>>)]_vars

C11_Witness ==
    /\ listing = "messages"
    /\ ended
    /\ driver = "returned"
    /\ ~txAlive["messages"]
    /\ Len(recvLog["messages"]) = 10

\* ------------------------------------------------ claims on listing-17-40

\* The even numbers 2..200 divisible by 3 or by 5.
ExpectedValues ==
    {v \in 1..200 : v % 2 = 0 /\ (v % 3 = 0 \/ v % 5 = 0)}

\* C12: listing 17-40 prints on stdout only doubled numbers of 1..100 that
\* are divisible by 3 or 5, in strictly ascending order (so each once), it
\* skips none below the number the filter is at, and when the loop has
\* ended it has printed all of them: 47 lines, the first 6, the last 200.
C12_MapFilter ==
    listing = "l1740" =>
        /\ \A i \in 1..Len(printed) :
              /\ printed[i].out = "stdout"
              /\ printed[i].item[1] = "The value was: "
              /\ printed[i].item[2] \in ExpectedValues
        /\ \A i \in 1..Len(printed) : \A j \in 1..Len(printed) :
              i < j => printed[i].item[2] < printed[j].item[2]
        /\ \A v \in ExpectedValues :
              (v < 2 * values /\ value # Some(v)) =>
                  \E i \in 1..Len(printed) : printed[i].item[2] = v
        /\ ended =>
              /\ driver = "returned"
              /\ Len(printed) = 47
              /\ printed[1].item[2] = 6
              /\ printed[47].item[2] = 200

C12_Witness ==
    /\ listing = "l1740"
    /\ ended
    /\ Len(printed) = 47
    /\ printed[2].item[2] = 10

====
